---- MODULE Spec2Model ----
(***************************************************************************)
(* A model of build_static.py: the static reading-statistics page builder. *)
(* main() fetches the library (through the cache of hardcover_client),     *)
(* normalises every library entry, aggregates the finished books, renders  *)
(* the page and writes the output files.                                   *)
(*                                                                         *)
(* Python values whose type the code tests are tagged records              *)
(* [t |-> "int" | "none" | "str", v |-> Int].  Entry fields that no        *)
(* modelled operation reads (author, cover, rating, url, started_date,     *)
(* duration_days) are left out of the entry record.                        *)
(***************************************************************************)
EXTENDS Integers, Sequences, FiniteSets

\* ------------------------------------------------------------ bounds
MaxFinished == 3
MaxBooks == 4
MaxRuns == 3
MaxTime == 3
MaxTtl == 2

VARIABLES
    pc,                 \* the statement of main() that runs next
    run,                \* number of the current invocation of main()
    now,                \* the wall clock, in seconds
    token,              \* HARDCOVER_API_TOKEN is set and non-blank
    NOCACHE,            \* the environment variable NOCACHE
    CACHE_TTL,          \* CACHE_TTL, from CACHE_TTL_SECONDS
    library,            \* what the remote service holds
    cache,              \* the cache file .cache/hardcover.json
    fetches,            \* live requests sent by the current run
    fetched_from,       \* where the current run's payload came from
    raw,                \* main: raw
    user_books,         \* main: user_books
    idx,                \* main: entries of user_books the loop has handled
    entry,              \* main: entry, the record the loop built last
    currently,          \* main: currently
    finished,           \* main: finished
    totals,             \* main: totals
    books_per_year,     \* main: books_per_year
    books_per_year_max, \* main: books_per_year_max
    timeline,           \* main: timeline
    index_html,         \* docs/reading/index.html
    build_json,         \* docs/build.json
    static_dst,         \* docs/static
    before              \* the outputs and the cache as the current run found them

envVars == <<run, now, token, NOCACHE, CACHE_TTL, library>>
cacheVars == <<cache, fetches, fetched_from>>
loopVars == <<raw, user_books, idx, entry, currently, finished>>
aggVars == <<totals, books_per_year, books_per_year_max, timeline>>
outVars == <<index_html, build_json, static_dst, before>>
vars == <<pc, envVars, cacheVars, loopVars, aggVars, outVars>>

\* ------------------------------------------------------------ Python values
None == [t |-> "none", v |-> 0]
PyInt(n) == [t |-> "int", v |-> n]
PyStr == [t |-> "str", v |-> 0]

\* isinstance(x, int)
IsInstanceInt(x) == x.t = "int"

\* truth value of a Python object: None and 0 are false, a non-empty string
\* (PyStr) is true
Truthy(x) == (x.t = "int" /\ x.v # 0) \/ x.t = "str"

\* ------------------------------------------------------------ float arithmetic
\* Python floats are IEEE-754 doubles: 53 mantissa bits, round-half-to-even.
\* A positive double is modelled as [m |-> mantissa, e |-> exponent] of value
\* m * 2^e with 2^52 <= m < 2^53.  Mantissas exceed TLC's 32-bit integers, so
\* a big natural is a sequence of limbs in base 2^9, most significant first.
MantissaBits == 53
Base == 2 ^ 9

Zeros(k) == [i \in 1..k |-> 0]

\* number of bits of a natural below 2^30
BitLen(n) == CHOOSE k \in 0..30 : n < 2 ^ k /\ (k = 0 \/ 2 ^ (k - 1) <= n)

Strip(b) ==
    IF \A i \in 1..Len(b) : b[i] = 0 THEN << >>
    ELSE LET j == CHOOSE i \in 1..Len(b) :
                      b[i] # 0 /\ \A h \in 1..(i - 1) : b[h] = 0
         IN  SubSeq(b, j, Len(b))

BigOfInt(n) ==
    Strip(<<n \div (Base * Base * Base), (n \div (Base * Base)) % Base,
            (n \div Base) % Base, n % Base>>)

RECURSIVE BigToInt(_)
BigToInt(b) ==
    IF b = << >> THEN 0
    ELSE Base * BigToInt(SubSeq(b, 1, Len(b) - 1)) + b[Len(b)]

BigBitLen(b) == IF b = << >> THEN 0 ELSE 9 * (Len(b) - 1) + BitLen(b[1])

\* b * k for a small k (k <= Base), limb by limb from the least significant
RECURSIVE MulFrom(_, _, _, _, _)
MulFrom(b, k, i, carry, acc) ==
    IF i = 0 THEN (IF carry = 0 THEN acc ELSE <<carry>> \o acc)
    ELSE LET t == b[i] * k + carry
         IN  MulFrom(b, k, i - 1, t \div Base, <<t % Base>> \o acc)

MulSmall(b, k) == MulFrom(b, k, Len(b), 0, << >>)

\* b * 2^s
ShiftLeftBig(b, s) == MulSmall(b, 2 ^ (s % 9)) \o Zeros(s \div 9)

\* schoolbook division of b by a small n (n < 2^22): quotient and remainder
RECURSIVE DivFrom(_, _, _, _, _)
DivFrom(b, n, i, r, acc) ==
    IF i > Len(b) THEN [q |-> Strip(acc), r |-> r]
    ELSE LET t == r * Base + b[i]
         IN  DivFrom(b, n, i + 1, t % n, Append(acc, t \div n))

DivSmall(b, n) == DivFrom(b, n, 1, 0, << >>)

AddOne(b) ==
    IF \A i \in 1..Len(b) : b[i] = Base - 1 THEN <<1>> \o Zeros(Len(b))
    ELSE LET j == CHOOSE i \in 1..Len(b) :
                      b[i] # Base - 1 /\ \A h \in (i + 1)..Len(b) : b[h] = Base - 1
         IN  [i \in 1..Len(b) |->
                 IF i < j THEN b[i] ELSE IF i = j THEN b[i] + 1 ELSE 0]

\* round-half-to-even of big * 2^e (big of at least 53 bits) to 53 bits;
\* `sticky` tells whether a non-zero remainder lies below big
RoundNearestEven(big, e, sticky) ==
    LET d     == BigBitLen(big) - MantissaBits
        h     == DivSmall(big, 2 ^ d)
        guard == d > 0 /\ h.r >= 2 ^ (d - 1)
        below == sticky \/ (d > 0 /\ h.r % (2 ^ (d - 1)) # 0)
        up    == guard /\ (below \/ h.q[Len(h.q)] % 2 = 1)
        inc   == AddOne(h.q)
    IN  IF ~up THEN [m |-> h.q, e |-> e + d]
        ELSE IF BigBitLen(inc) = MantissaBits THEN [m |-> inc, e |-> e + d]
        ELSE [m |-> DivSmall(inc, 2).q, e |-> e + d + 1]

\* p / n for Python ints 0 < p < 2^30, 0 < n < 2^22: the correctly rounded
\* quotient, from the 54-bit integer quotient of p * 2^s by n
TrueDiv(p, n) ==
    LET s0 == MantissaBits + 1 - (BitLen(p) - BitLen(n))
        d0 == DivSmall(ShiftLeftBig(BigOfInt(p), s0), n)
        s  == IF BigBitLen(d0.q) > MantissaBits + 1 THEN s0 - 1 ELSE s0
        d  == IF s = s0 THEN d0 ELSE DivSmall(ShiftLeftBig(BigOfInt(p), s), n)
    IN  RoundNearestEven(d.q, 0 - s, d.r # 0)

\* x * 100 for a double x
Times100(x) == RoundNearestEven(MulSmall(x.m, 100), x.e, FALSE)

\* int(x) for a positive double x: truncation
FloatToInt(x) ==
    IF x.e >= 0 THEN BigToInt(ShiftLeftBig(x.m, x.e))
    ELSE IF 0 - x.e >= MantissaBits THEN 0
    ELSE LET k == 0 - x.e
         IN  BigToInt(DivSmall(SubSeq(x.m, 1, Len(x.m) - (k \div 9)),
                               2 ^ (k % 9)).q)

\* int(progress / pages * 100) for progress >= 0, pages > 0
PctOf(progress, pages) ==
    IF progress = 0 THEN 0
    ELSE FloatToInt(Times100(TrueDiv(progress, pages)))

\* ------------------------------------------------------------ dates
NoDate == [year |-> 0, month |-> 0, day |-> 0]
MkDate(y, m, d) == [year |-> y, month |-> m, day |-> d]

\* date.__lt__ : dates compare as (year, month, day)
DateLess(a, b) ==
    \/ a.year < b.year
    \/ a.year = b.year /\ a.month < b.month
    \/ a.year = b.year /\ a.month = b.month /\ a.day < b.day

\* `if fd:` / `if not fd:` on an entry's finished_date (None or a date)
HasDate(b) == b.finished_date # NoDate

\* ------------------------------------------------------------ helpers
RECURSIVE SumSeq(_)
SumSeq(s) == IF s = << >> THEN 0 ELSE Head(s) + SumSeq(Tail(s))

\* a slip of SortedDesc: reverse=True forgotten
RECURSIVE SortedAsc(_)
SortedAsc(S) ==
    IF S = {} THEN << >>
    ELSE LET x == CHOOSE y \in S : \A z \in S : y <= z
         IN  <<x>> \o SortedAsc(S \ {x})

\* sorted(keys, reverse=True) on a set of distinct integers
RECURSIVE SortedDesc(_)
SortedDesc(S) ==
    IF S = {} THEN << >>
    ELSE LET x == CHOOSE y \in S : \A z \in S : z <= y
         IN  <<x>> \o SortedDesc(S \ {x})

\* counter[k] += 1 on a defaultdict(int)
Bump(counter, k) ==
    IF k \in DOMAIN counter
    THEN [counter EXCEPT ![k] = @ + 1]
    ELSE [x \in (DOMAIN counter) \cup {k} |-> IF x = k THEN 1 ELSE counter[x]]

\* ------------------------------------------------------------ compute_totals
\* a slip of CountsPages: >= for >
CountsPagesNonNegative(p) == IsInstanceInt(p) /\ p.v >= 0

\* if isinstance(p, int) and p > 0
CountsPages(p) == IsInstanceInt(p) /\ p.v > 0

RECURSIVE TotalsLoop(_, _, _)
TotalsLoop(rest, pages, missing) ==
    IF rest = << >> THEN [pages |-> pages, missing |-> missing]
    ELSE LET p == Head(rest).pages
         IN  IF CountsPages(p)
             THEN TotalsLoop(Tail(rest), pages + p.v, missing)
             ELSE TotalsLoop(Tail(rest), pages, missing + 1)

compute_totals(fin) ==
    LET r == TotalsLoop(fin, 0, 0)
    IN  [books |-> Len(fin), pages |-> r.pages, missing_pages |-> r.missing]

\* ------------------------------------------------------------ compute_books_per_year
RECURSIVE YearCounter(_, _)
YearCounter(rest, counter) ==
    IF rest = << >> THEN counter
    ELSE LET b == Head(rest)
         IN  IF HasDate(b)
             THEN YearCounter(Tail(rest), Bump(counter, b.finished_date.year))
             ELSE YearCounter(Tail(rest), counter)

EmptyMap == [x \in {} |-> 0]

BooksPerYearRows(fin) ==
    LET counter == YearCounter(fin, EmptyMap)
        ys == SortedDesc(DOMAIN counter)
    IN  [k \in 1..Len(ys) |-> [year |-> ys[k], count |-> counter[ys[k]]]]

\* max((r["count"] for r in rows), default=0)
BooksPerYearMax(rows) ==
    IF rows = << >> THEN 0
    ELSE CHOOSE c \in {rows[k].count : k \in 1..Len(rows)} :
             \A k \in 1..Len(rows) : rows[k].count <= c

\* ------------------------------------------------------------ compute_timeline
\* a slip of GroupBooks: the month's list is replaced, not appended to
RECURSIVE GroupBooksOverwrite(_, _)
GroupBooksOverwrite(rest, years) ==
    IF rest = << >> THEN years
    ELSE LET b == Head(rest)
             y == b.finished_date.year
             m == b.finished_date.month
         IN  IF b.finished_date = [year |-> 0, month |-> 0, day |-> 0]
             THEN GroupBooksOverwrite(Tail(rest), years)
             ELSE GroupBooksOverwrite(Tail(rest),
                      [x \in (DOMAIN years) \cup {y} |->
                          IF x # y THEN years[x]
                          ELSE [mm \in (IF y \in DOMAIN years
                                        THEN DOMAIN years[y] ELSE {}) \cup {m} |->
                                   IF mm = m THEN <<b>> ELSE years[y][mm]]])

\* years[fd.year][fd.month].append(b)
RECURSIVE GroupBooks(_, _)
GroupBooks(rest, years) ==
    IF rest = << >> THEN years
    ELSE LET b == Head(rest)
             y == b.finished_date.year
             m == b.finished_date.month
         IN  IF ~HasDate(b) THEN GroupBooks(Tail(rest), years)
             ELSE IF y \notin DOMAIN years
             THEN GroupBooks(Tail(rest),
                      [x \in (DOMAIN years) \cup {y} |->
                          IF x = y THEN [mm \in {m} |-> <<b>>] ELSE years[x]])
             ELSE IF m \notin DOMAIN years[y]
             THEN GroupBooks(Tail(rest),
                      [years EXCEPT ![y] =
                          [mm \in (DOMAIN years[y]) \cup {m} |->
                              IF mm = m THEN <<b>> ELSE years[y][mm]]])
             ELSE GroupBooks(Tail(rest),
                      [years EXCEPT ![y][m] = Append(@, b)])

\* key=lambda x: (x.get("finished_date") or date.min); date.min is year 1
SortKey(b) == IF HasDate(b) THEN b.finished_date ELSE MkDate(1, 1, 1)

\* a slip of InsertDesc: the list is kept ascending (reverse=True forgotten)
InsertAsc(sorted, b) ==
    LET n == Cardinality({k \in 1..Len(sorted) :
                             ~DateLess(SortKey(b), SortKey(sorted[k]))})
    IN  SubSeq(sorted, 1, n) \o <<b>> \o SubSeq(sorted, n + 1, Len(sorted))

\* place b in a list already sorted descending, after every element whose key
\* is >= its own: sorted(..., reverse=True) is stable
InsertDesc(sorted, b) ==
    LET n == Cardinality({k \in 1..Len(sorted) :
                             ~DateLess(SortKey(sorted[k]), SortKey(b))})
    IN  SubSeq(sorted, 1, n) \o <<b>> \o SubSeq(sorted, n + 1, Len(sorted))

RECURSIVE SortBooksDesc(_, _)
SortBooksDesc(rest, acc) ==
    IF rest = << >> THEN acc
    ELSE SortBooksDesc(Tail(rest), InsertDesc(acc, Head(rest)))

MonthNode(m, group) ==
    LET books == SortBooksDesc(group, << >>)
    IN  [month |-> m, count |-> Len(books), books |-> books]

YearNode(y, byMonth) ==
    LET ms == SortedDesc(DOMAIN byMonth)
        months == [k \in 1..Len(ms) |-> MonthNode(ms[k], byMonth[ms[k]])]
    IN  [year |-> y,
         count |-> SumSeq([k \in 1..Len(months) |-> months[k].count]),
         months |-> months]

compute_timeline(fin) ==
    LET years == GroupBooks(fin, EmptyMap)
        ys == SortedDesc(DOMAIN years)
    IN  [k \in 1..Len(ys) |-> YearNode(ys[k], years[ys[k]])]

\* ------------------------------------------------------------ raw records
\* A date string of the API: absent, "", an ISO date (with or without a time
\* after the tenth character), or text date.fromisoformat rejects.
RawDate(k, d, suffix) == [k |-> k, d |-> d, suffix |-> suffix]
RawNoDate == RawDate("none", NoDate, FALSE)

\* parse_iso_date raises ValueError on such a string
DateRaises(s) == s.k = "bad"

\* parse_iso_date: None for None and "", else the date of s[:10]
parse_iso_date(s) == IF s.k \in {"none", "empty"} THEN NoDate ELSE s.d

\* a read session: user_book_reads[k]
Session(progress, finished_at) == [progress |-> progress, finished_at |-> finished_at]

\* latest = reads[-1] if reads else {}
Latest(ub) ==
    IF ub.reads = << >> THEN Session(None, RawNoDate) ELSE ub.reads[Len(ub.reads)]

\* a library entry ub; shape tells which keys the loop body indexes
\* unguarded are there: "ok", or "no_book" (ub["book"]), "no_slug" (book["slug"])
UserBook(shape, title, status_id, pages, reads) ==
    [shape |-> shape, title |-> title, status_id |-> status_id,
     pages |-> pages, reads |-> reads]

\* the loop body raises KeyError or ValueError on this entry
EntryRaises(ub) == ub.shape # "ok" \/ DateRaises(Latest(ub).finished_at)

\* pages = book.get("pages") if isinstance(book.get("pages"), int) else None
NormPages(ub) == IF IsInstanceInt(ub.pages) THEN ub.pages ELSE None

\* progress = latest.get("progress") or 0, for a progress that is None or an int
NormProgress(ub) ==
    LET pr == Latest(ub).progress IN IF Truthy(pr) THEN pr.v ELSE 0

\* if pages and pages > 0
PagesKnown(pages) == Truthy(pages) /\ pages.v > 0

\* ub.get("status_id") == k
StatusIs(ub, k) == ub.status_id.t = "int" /\ ub.status_id.v = k

\* pct = int(progress / pages * 100) under `if pages and pages > 0`, else None
NormPct(ub) ==
    IF PagesKnown(NormPages(ub))
    THEN PyInt(PctOf(NormProgress(ub), NormPages(ub).v))
    ELSE None

\* missing = True only in the else branch, for status 2
NormMissing(ub) == ~PagesKnown(NormPages(ub)) /\ StatusIs(ub, 2)

\* the entry dict the loop body builds
NormalizeEntry(ub) ==
    [title |-> ub.title,
     pages |-> NormPages(ub),
     progress |-> NormProgress(ub),
     pct |-> NormPct(ub),
     missing |-> NormMissing(ub),
     finished_date |-> parse_iso_date(Latest(ub).finished_at)]

\* a slip of Route: `else` for `elif status_id == 3`
RouteElse(ub) ==
    IF ub.status_id.t = "int" /\ ub.status_id.v = 2 THEN "currently" ELSE "finished"

\* if status_id == 2: currently.append; elif status_id == 3: finished.append
Route(ub) ==
    IF StatusIs(ub, 2) THEN "currently"
    ELSE IF StatusIs(ub, 3) THEN "finished"
    ELSE "dropped"

NoEntry ==
    [title |-> 0, pages |-> None, progress |-> 0, pct |-> None,
     missing |-> FALSE, finished_date |-> NoDate]

NoTotals == [books |-> 0, pages |-> 0, missing_pages |-> 0]

\* ------------------------------------------------------------ main: the loop
\* one iteration of `for ub in user_books`
LoopStep ==
    /\ pc = "loop"
    /\ idx < Len(user_books)
    /\ LET ub == user_books[idx + 1]
           e  == NormalizeEntry(ub)
       IN  /\ ~EntryRaises(ub)
           /\ entry' = e
           /\ currently' = IF Route(ub) = "currently"
                           THEN Append(currently, e) ELSE currently
           /\ finished' = IF Route(ub) = "finished"
                          THEN Append(finished, e) ELSE finished
    /\ idx' = idx + 1
    /\ pc' = IF idx + 1 = Len(user_books) THEN "totals" ELSE "loop"
    /\ UNCHANGED <<raw, user_books, envVars, cacheVars, aggVars, outVars>>

\* an iteration that raises: main() ends with the traceback
LoopRaise ==
    /\ pc = "loop"
    /\ idx < Len(user_books)
    /\ EntryRaises(user_books[idx + 1])
    /\ pc' = "failed"
    /\ UNCHANGED <<envVars, cacheVars, loopVars, aggVars, outVars>>

\* ------------------------------------------------------------ main: aggregation
ComputeTotals ==
    /\ pc = "totals"
    /\ totals' = compute_totals(finished)
    /\ pc' = "books_per_year"
    /\ UNCHANGED <<books_per_year, books_per_year_max, timeline,
                   envVars, cacheVars, loopVars, outVars>>

ComputeBooksPerYear ==
    /\ pc = "books_per_year"
    /\ books_per_year' = BooksPerYearRows(finished)
    /\ books_per_year_max' = BooksPerYearMax(BooksPerYearRows(finished))
    /\ pc' = "timeline"
    /\ UNCHANGED <<totals, timeline, envVars, cacheVars, loopVars, outVars>>

ComputeTimeline ==
    /\ pc = "timeline"
    /\ timeline' = compute_timeline(finished)
    /\ pc' = "render"
    /\ UNCHANGED <<totals, books_per_year, books_per_year_max,
                   envVars, cacheVars, loopVars, outVars>>

\* ------------------------------------------------------------ main: start
\* token = os.getenv("HARDCOVER_API_TOKEN", "").strip(); if not token: raise
CheckToken ==
    /\ pc = "start"
    /\ token
    /\ pc' = "fetch"
    /\ UNCHANGED <<envVars, cacheVars, loopVars, aggVars, outVars>>

CheckTokenMissing ==
    /\ pc = "start"
    /\ ~token
    /\ pc' = "failed"
    /\ UNCHANGED <<envVars, cacheVars, loopVars, aggVars, outVars>>

\* a slip of Nocache: the cache is bypassed only on an explicit NOCACHE=1
NocacheDefaultOff(env) == env = "1"

\* nocache = os.getenv("NOCACHE", "1") == "1"
Nocache(env) == (IF env = "unset" THEN "1" ELSE env) = "1"

\* ------------------------------------------------------------ fetch_hardcover_data
\* The cache store and the data source adapter (module hardcover_client).
NoRaw == [me_shape |-> "record", books |-> << >>, stamp |-> 0 - 1]
NoCache == [state |-> "absent", ts |-> 0, payload |-> NoRaw]
CorruptCache == [state |-> "corrupt", ts |-> 0, payload |-> NoRaw]

\* a cached payload is fresh if its timestamp is within ttl seconds of now;
\* a missing or corrupt file is not fresh
IsFresh(c, t, ttl) == c.state = "valid" /\ t - c.ts <= ttl

\* what a live request answers at time t
LivePayload(lib, t) == [me_shape |-> lib.me_shape, books |-> lib.books, stamp |-> t]

\* store(path, payload)
StoreCache(payload, t) == [state |-> "valid", ts |-> t, payload |-> payload]

FetchCached ==
    /\ pc = "fetch"
    /\ ~Nocache(NOCACHE)
    /\ IsFresh(cache, now, CACHE_TTL)
    /\ raw' = cache.payload
    /\ fetched_from' = "cache"
    /\ pc' = "normalize"
    /\ UNCHANGED <<cache, fetches, user_books, idx, entry, currently, finished,
                   envVars, aggVars, outVars>>

FetchLive ==
    /\ pc = "fetch"
    /\ Nocache(NOCACHE) \/ ~IsFresh(cache, now, CACHE_TTL)
    /\ fetches' = fetches + 1
    /\ raw' = LivePayload(library, now)
    /\ cache' = StoreCache(LivePayload(library, now), now)
    /\ fetched_from' = "live"
    /\ pc' = "normalize"
    /\ UNCHANGED <<user_books, idx, entry, currently, finished,
                   envVars, aggVars, outVars>>

\* the live request fails: fetch_hardcover_data raises, nothing is stored
FetchRaise ==
    /\ pc = "fetch"
    /\ Nocache(NOCACHE) \/ ~IsFresh(cache, now, CACHE_TTL)
    /\ fetches' = fetches + 1
    /\ fetched_from' = "error"
    /\ pc' = "failed"
    /\ UNCHANGED <<cache, envVars, loopVars, aggVars, outVars>>

\* ------------------------------------------------------------ normalize_me
\* me_raw = normalize_me(raw["me"]); user_books = me_raw.get("user_books", [])
NormalizeMe ==
    /\ pc = "normalize"
    /\ raw.me_shape # "empty_list"
    /\ user_books' = raw.books
    /\ idx' = 0
    /\ currently' = << >>
    /\ finished' = << >>
    /\ pc' = IF raw.books = << >> THEN "totals" ELSE "loop"
    /\ UNCHANGED <<raw, entry, envVars, cacheVars, aggVars, outVars>>

\* raise RuntimeError("Hardcover API returned empty `me` list")
NormalizeMeRaise ==
    /\ pc = "normalize"
    /\ raw.me_shape = "empty_list"
    /\ pc' = "failed"
    /\ UNCHANGED <<envVars, cacheVars, loopVars, aggVars, outVars>>

\* ------------------------------------------------------------ main: render and write
\* pace, goals, the jinja2 environment and tpl.render(...)
Render ==
    /\ pc = "render"
    /\ pc' = "write_html"
    /\ UNCHANGED <<envVars, cacheVars, loopVars, aggVars, outVars>>

RenderRaise ==
    /\ pc = "render"
    /\ pc' = "failed"
    /\ UNCHANGED <<envVars, cacheVars, loopVars, aggVars, outVars>>

\* (DOCS / "reading").mkdir(...); (DOCS / "reading" / "index.html").write_text(html)
WriteIndexHtml ==
    /\ pc = "write_html"
    /\ index_html' = "new"
    /\ pc' = "write_json"
    /\ UNCHANGED <<build_json, static_dst, before,
                   envVars, cacheVars, loopVars, aggVars>>

\* the write raises OSError: the file is as it was, or truncated
WriteIndexHtmlRaise ==
    /\ pc = "write_html"
    /\ index_html' \in {index_html, "partial"}
    /\ pc' = "failed"
    /\ UNCHANGED <<build_json, static_dst, before,
                   envVars, cacheVars, loopVars, aggVars>>

\* (DOCS / "build.json").write_text(json.dumps(...))
WriteBuildJson ==
    /\ pc = "write_json"
    /\ build_json' = "new"
    /\ pc' = "copy_static"
    /\ UNCHANGED <<index_html, static_dst, before,
                   envVars, cacheVars, loopVars, aggVars>>

WriteBuildJsonRaise ==
    /\ pc = "write_json"
    /\ build_json' \in {build_json, "partial"}
    /\ pc' = "failed"
    /\ UNCHANGED <<index_html, static_dst, before,
                   envVars, cacheVars, loopVars, aggVars>>

\* copy_static(): rmtree(STATIC_DST) if it exists, then copytree
CopyStatic ==
    /\ pc = "copy_static"
    /\ static_dst' = "new"
    /\ pc' = "done"
    /\ UNCHANGED <<index_html, build_json, before,
                   envVars, cacheVars, loopVars, aggVars>>

\* rmtree or copytree raises: the directory is as it was (rmtree refused),
\* gone (copytree refused after rmtree) or half removed / half copied
CopyStaticRaise ==
    /\ pc = "copy_static"
    /\ static_dst' \in {static_dst, "absent", "partial"}
    /\ pc' = "failed"
    /\ UNCHANGED <<index_html, build_json, before,
                   envVars, cacheVars, loopVars, aggVars>>

\* ------------------------------------------------------------ the next invocation
\* a file the previous run wrote is an old file to the next run
Aged(f) == IF f = "new" THEN "old" ELSE f

\* main() is started again, later, in a fresh process and environment
StartRun ==
    /\ pc \in {"done", "failed"}
    /\ run < MaxRuns
    /\ run' = run + 1
    /\ now' \in now..MaxTime
    /\ token' \in BOOLEAN
    /\ NOCACHE' \in {"unset", "1", "0"}
    /\ fetches' = 0
    /\ fetched_from' = "none"
    /\ raw' = NoRaw
    /\ user_books' = << >>
    /\ idx' = 0
    /\ entry' = NoEntry
    /\ currently' = << >>
    /\ finished' = << >>
    /\ totals' = NoTotals
    /\ books_per_year' = << >>
    /\ books_per_year_max' = 0
    /\ timeline' = << >>
    /\ index_html' = Aged(index_html)
    /\ build_json' = Aged(build_json)
    /\ static_dst' = Aged(static_dst)
    /\ before' = [index_html |-> Aged(index_html), build_json |-> Aged(build_json),
                  static_dst |-> Aged(static_dst), cache |-> cache]
    /\ pc' = "start"
    /\ UNCHANGED <<CACHE_TTL, library, cache>>

\* ------------------------------------------------------------ inputs
D_2023_05_10 == MkDate(2023, 5, 10)
D_2024_05_02 == MkDate(2024, 5, 2)
D_2024_05_20 == MkDate(2024, 5, 20)
D_2024_11_03 == MkDate(2024, 11, 3)
Dates == {D_2023_05_10, D_2024_05_02, D_2024_05_20, D_2024_11_03}

PageVals == {None, PyStr, PyInt(0), PyInt(0 - 5), PyInt(100), PyInt(300)}
ProgressVals == {None, PyInt(0), PyInt(29), PyInt(101), PyInt(300), PyInt(400)}
StatusVals == {None, PyInt(1), PyInt(2), PyInt(3)}

SeqsUpTo(S, n) == UNION {[1..k -> S] : k \in 0..n}

\* title k for the k-th entry of a library
Titled(books) == [k \in 1..Len(books) |-> [books[k] EXCEPT !.title = k]]

Iso(d) == RawDate("iso", d, FALSE)

\* entries that differ in status, and two the loop body raises on
RouteKinds ==
    {UserBook("ok", 0, st, PyInt(300), <<Session(PyInt(150), Iso(D_2024_05_02))>>) :
        st \in StatusVals}
    \cup {UserBook("no_slug", 0, PyInt(3), PyInt(300), << >>),
          UserBook("ok", 0, PyInt(2), PyInt(300),
                   <<Session(PyInt(1), RawDate("bad", NoDate, FALSE))>>)}

\* entries that differ in page count, progress and status
PctKinds ==
    {UserBook("ok", 0, st, pg, <<Session(pr, Iso(D_2024_11_03))>>) :
        st \in {PyInt(1), PyInt(2), PyInt(3)}, pg \in PageVals, pr \in ProgressVals}

\* entries that differ in their read sessions: none, one, or two of which
\* only the last counts
ReadsKinds ==
    {UserBook("ok", 0, PyInt(3), PyInt(100), rs) :
        rs \in {<< >>,
                <<Session(PyInt(29), RawDate("empty", NoDate, FALSE))>>,
                <<Session(PyInt(29), RawDate("iso", D_2023_05_10, TRUE))>>,
                <<Session(PyInt(100), Iso(D_2023_05_10)),
                  Session(PyInt(29), Iso(D_2024_05_20))>>}}

LoopInputs ==
    {Titled(bs) : bs \in SeqsUpTo(RouteKinds, MaxBooks)}
    \cup {Titled(<<b>>) : b \in PctKinds \cup ReadsKinds}

\* finished entries as compute_* may be handed them
FinishedEntry(pages, d) ==
    [title |-> 0, pages |-> pages, progress |-> 0, pct |-> None,
     missing |-> FALSE, finished_date |-> d]

FinishedKinds ==
    {FinishedEntry(pg, d) : pg \in PageVals, d \in {NoDate, D_2024_05_02}}
    \cup {FinishedEntry(PyInt(100), d) : d \in Dates}

FinishedInputs == SeqsUpTo(FinishedKinds, MaxFinished)

Reading == UserBook("ok", 1, PyInt(2), None, <<Session(PyInt(40), RawNoDate)>>)
Done == UserBook("ok", 2, PyInt(3), PyInt(300), <<Session(PyInt(300), Iso(D_2024_05_02))>>)
Wanted == UserBook("ok", 3, PyInt(1), PyInt(100), << >>)
Broken == UserBook("no_book", 2, PyInt(3), None, << >>)

Libraries ==
    {[me_shape |-> "list", books |-> << >>],
     [me_shape |-> "empty_list", books |-> << >>],
     [me_shape |-> "record", books |-> <<Reading, Done, Wanted>>],
     [me_shape |-> "list", books |-> <<Reading, Broken>>]}

\* ------------------------------------------------------------ specifications
FreshProcess ==
    /\ fetches = 0
    /\ fetched_from = "none"
    /\ raw = NoRaw
    /\ idx = 0
    /\ entry = NoEntry
    /\ currently = << >>
    /\ totals = NoTotals
    /\ books_per_year = << >>
    /\ books_per_year_max = 0
    /\ timeline = << >>

\* the first invocation of main(), in a checkout without outputs or with the
\* static directory of an earlier build
Init ==
    /\ pc = "start"
    /\ run = 1
    /\ now = 0
    /\ token \in BOOLEAN
    /\ NOCACHE \in {"unset", "1", "0"}
    /\ CACHE_TTL \in 0..MaxTtl
    /\ library \in Libraries
    /\ cache \in {NoCache, CorruptCache}
    /\ FreshProcess
    /\ user_books = << >>
    /\ finished = << >>
    /\ index_html = "absent"
    /\ build_json = "absent"
    /\ static_dst \in {"absent", "old"}
    /\ before = [index_html |-> index_html, build_json |-> build_json,
                 static_dst |-> static_dst, cache |-> cache]

Next ==
    \/ CheckToken \/ CheckTokenMissing
    \/ FetchCached \/ FetchLive \/ FetchRaise
    \/ NormalizeMe \/ NormalizeMeRaise
    \/ LoopStep \/ LoopRaise
    \/ ComputeTotals \/ ComputeBooksPerYear \/ ComputeTimeline
    \/ Render \/ RenderRaise
    \/ WriteIndexHtml \/ WriteIndexHtmlRaise
    \/ WriteBuildJson \/ WriteBuildJsonRaise
    \/ CopyStatic \/ CopyStaticRaise
    \/ StartRun

Spec == Init /\ [][Next]_vars

Quiet ==
    /\ run = 1
    /\ now = 0
    /\ token = TRUE
    /\ NOCACHE = "unset"
    /\ CACHE_TTL = 1
    /\ library = [me_shape |-> "record", books |-> << >>]
    /\ cache = NoCache
    /\ FreshProcess
    /\ index_html = "absent"
    /\ build_json = "absent"
    /\ static_dst = "absent"
    /\ before = [index_html |-> "absent", build_json |-> "absent",
                 static_dst |-> "absent", cache |-> NoCache]

\* the loop of main() over every user_books of LoopInputs
InitLoop ==
    /\ Quiet
    /\ user_books \in LoopInputs
    /\ finished = << >>
    /\ pc = IF user_books = << >> THEN "totals" ELSE "loop"

NextLoop == LoopStep \/ LoopRaise

SpecLoop == InitLoop /\ [][NextLoop]_vars

\* compute_totals, compute_books_per_year and compute_timeline on every
\* finished list of FinishedInputs
InitAgg ==
    /\ Quiet
    /\ user_books = << >>
    /\ finished \in FinishedInputs
    /\ pc = "totals"

NextAgg == ComputeTotals \/ ComputeBooksPerYear \/ ComputeTimeline

SpecAgg == InitAgg /\ [][NextAgg]_vars

\* ------------------------------------------------------------ properties
\* statements of main(), in order
Rank(p) ==
    CASE p = "start" -> 0 [] p = "fetch" -> 1 [] p = "normalize" -> 2
      [] p = "loop" -> 3 [] p = "totals" -> 4 [] p = "books_per_year" -> 5
      [] p = "timeline" -> 6 [] p = "render" -> 7 [] p = "write_html" -> 8
      [] p = "write_json" -> 9 [] p = "copy_static" -> 10 [] p = "done" -> 11
      [] OTHER -> 0 - 1

TotalsComputed == Rank(pc) >= 5
BooksPerYearComputed == Rank(pc) >= 6
TimelineComputed == Rank(pc) >= 7

IsPositiveInt(p) == p.t = "int" /\ p.v >= 1
Indices(seq) == 1..Len(seq)
Dated == {k \in Indices(finished) : finished[k].finished_date # NoDate}

\* C1: compute_totals counts every finished book once: books is the length of
\* the list, pages the sum of the page counts that are positive integers,
\* missing_pages the number of books whose page count is not a positive
\* integer, and the books with a positive page count plus the missing ones
\* are all the books.
C1_TotalsPartition ==
    TotalsComputed =>
        /\ totals.books = Len(finished)
        /\ totals.pages =
               SumSeq([k \in Indices(finished) |->
                          IF IsPositiveInt(finished[k].pages)
                          THEN finished[k].pages.v ELSE 0])
        /\ totals.missing_pages =
               Cardinality({k \in Indices(finished) :
                               ~IsPositiveInt(finished[k].pages)})
        /\ Cardinality({k \in Indices(finished) : IsPositiveInt(finished[k].pages)})
               + totals.missing_pages = Len(finished)

C1_Witness ==
    /\ TotalsComputed
    /\ \E i, j, k \in Indices(finished) :
           /\ finished[i].pages = PyInt(300)
           /\ finished[j].pages = PyInt(0)
           /\ finished[k].pages = None
    /\ totals.pages = 300
    /\ totals.missing_pages = 2

\* C2: while main() loops over the library, every handled entry of status 2
\* is once in currently and not in finished, every handled entry of status 3
\* is once in finished and not in currently, every other handled entry is in
\* neither, and each list keeps the entries in source order.
Occurrences(seq, title) == Cardinality({i \in Indices(seq) : seq[i].title = title})

C2_RoutingExclusive ==
    /\ \A k \in 1..idx :
           LET st == user_books[k].status_id
           IN  /\ Occurrences(currently, k) = (IF st = PyInt(2) THEN 1 ELSE 0)
               /\ Occurrences(finished, k) = (IF st = PyInt(3) THEN 1 ELSE 0)
    /\ \A i \in Indices(currently) : currently[i].title \in 1..idx
    /\ \A i \in Indices(finished) : finished[i].title \in 1..idx
    /\ \A i, j \in Indices(currently) :
           i < j => currently[i].title < currently[j].title
    /\ \A i, j \in Indices(finished) :
           i < j => finished[i].title < finished[j].title

C2_Witness ==
    /\ idx = 4
    /\ Len(currently) = 2
    /\ Len(finished) = 1
    /\ user_books[2].status_id = None
    /\ currently[2].title = 4

\* C3: the rows of compute_books_per_year have strictly descending years,
\* which are exactly the finish years of the finished books with a finish
\* date; each count is the number of books finished that year and the counts
\* sum to the number of dated books; the maximum is the largest count of a
\* row, or 0 without rows.
C3_BooksPerYear ==
    BooksPerYearComputed =>
        /\ \A i, j \in Indices(books_per_year) :
               i < j => books_per_year[i].year > books_per_year[j].year
        /\ {books_per_year[i].year : i \in Indices(books_per_year)}
               = {finished[k].finished_date.year : k \in Dated}
        /\ \A i \in Indices(books_per_year) :
               books_per_year[i].count =
                   Cardinality({k \in Dated :
                       finished[k].finished_date.year = books_per_year[i].year})
        /\ SumSeq([i \in Indices(books_per_year) |-> books_per_year[i].count])
               = Cardinality(Dated)
        /\ IF books_per_year = << >> THEN books_per_year_max = 0
           ELSE /\ \E i \in Indices(books_per_year) :
                       books_per_year[i].count = books_per_year_max
                /\ \A i \in Indices(books_per_year) :
                       books_per_year[i].count <= books_per_year_max

C3_Witness ==
    /\ BooksPerYearComputed
    /\ Len(finished) = 3
    /\ Cardinality(Dated) = 2
    /\ Len(books_per_year) = 2
    /\ books_per_year[1].year = 2024
    /\ books_per_year[2].year = 2023

\* the places of the timeline: year node, month node, book
Places ==
    UNION {UNION {{<<i, j, k>> : k \in Indices(timeline[i].months[j].books)} :
                     j \in Indices(timeline[i].months)} :
              i \in Indices(timeline)}
BookAt(pl) == timeline[pl[1]].months[pl[2]].books[pl[3]]

\* C4: the books of the month nodes of compute_timeline are, as a multiset,
\* the finished books that have a finish date; each sits under the year and
\* month of its finish date; a month's count is the length of its book
\* list and a year's count the sum of its months' counts.
C4_TimelineRoundTrip ==
    TimelineComputed =>
        /\ \A k \in Indices(finished) :
               Cardinality({pl \in Places : BookAt(pl) = finished[k]})
                   = (IF k \in Dated
                      THEN Cardinality({h \in Dated : finished[h] = finished[k]})
                      ELSE 0)
        /\ Cardinality(Places) = Cardinality(Dated)
        /\ \A pl \in Places :
               /\ BookAt(pl).finished_date.year = timeline[pl[1]].year
               /\ BookAt(pl).finished_date.month = timeline[pl[1]].months[pl[2]].month
        /\ \A i \in Indices(timeline) :
               /\ \A j \in Indices(timeline[i].months) :
                      timeline[i].months[j].count = Len(timeline[i].months[j].books)
               /\ timeline[i].count =
                      SumSeq([j \in Indices(timeline[i].months) |->
                                 Len(timeline[i].months[j].books)])

C4_Witness ==
    /\ TimelineComputed
    /\ Len(finished) = 3
    /\ finished[1] = finished[3]
    /\ finished[1].finished_date = D_2024_05_02
    /\ finished[2].finished_date = NoDate
    /\ Len(timeline) = 1
    /\ timeline[1].months[1].count = 2

Ordinal(d) == d.year * 10000 + d.month * 100 + d.day

\* C5: in compute_timeline's result the years are strictly descending, the
\* months of a year strictly descending, and the books of a month in
\* non-increasing order of finish date.
C5_TimelineOrder ==
    TimelineComputed =>
        /\ \A i, j \in Indices(timeline) :
               i < j => timeline[i].year > timeline[j].year
        /\ \A i \in Indices(timeline) :
               \A j, k \in Indices(timeline[i].months) :
                   j < k => timeline[i].months[j].month > timeline[i].months[k].month
        /\ \A i \in Indices(timeline) :
               \A j \in Indices(timeline[i].months) :
                   LET books == timeline[i].months[j].books
                   IN  \A a, b \in Indices(books) :
                           a < b => Ordinal(books[a].finished_date)
                                        >= Ordinal(books[b].finished_date)

C5_Witness ==
    /\ TimelineComputed
    /\ Len(finished) = 3
    /\ finished[1].finished_date = D_2024_05_02
    /\ finished[2].finished_date = D_2024_05_20
    /\ finished[3].finished_date = D_2024_11_03
    /\ Len(timeline) = 1
    /\ Len(timeline[1].months) = 2
    /\ timeline[1].months[2].books[1].finished_date = D_2024_05_20

\* C6: a run that is not in bypass mode and finds a cache written at most
\* CACHE_TTL seconds ago takes that payload and sends no request; a run in
\* bypass mode (NOCACHE unset or 1), or one that finds the cache older,
\* missing or corrupt, sends one request, and stores what it got in the
\* cache; no run sends more than one request.
Bypass == NOCACHE \in {"unset", "1"}
FoundFresh == before.cache.state = "valid" /\ now <= before.cache.ts + CACHE_TTL

C6_CachePolicy ==
    /\ fetches <= 1
    /\ fetched_from # "none" =>
           IF ~Bypass /\ FoundFresh
           THEN /\ fetched_from = "cache"
                /\ fetches = 0
                /\ raw = before.cache.payload
                /\ raw.stamp = before.cache.ts
                /\ cache = before.cache
           ELSE /\ fetched_from \in {"live", "error"}
                /\ fetches = 1
                /\ fetched_from = "live" =>
                       /\ raw.stamp = now
                       /\ cache = [state |-> "valid", ts |-> now, payload |-> raw]

C6_Witness ==
    /\ run = 2
    /\ fetched_from = "cache"
    /\ now = before.cache.ts + CACHE_TTL
    /\ CACHE_TTL = 2
    /\ raw.stamp = 0
    /\ pc = "done"

\* C7: the pages field of the entry the loop built is a positive integer or
\* None.
C7_PagesPositiveOrAbsent ==
    idx > 0 => entry.pages = None \/ IsPositiveInt(entry.pages)

\* C8: the entry's pct is there exactly when the source page count is a
\* positive integer and is then floor(progress * 100 / pages); without a
\* positive page count there is no pct, and missing is set exactly for
\* status 2.
C8_PctIsFloor ==
    idx > 0 =>
        LET ub == user_books[idx]
        IN  IF IsPositiveInt(ub.pages)
            THEN /\ entry.pct = PyInt((entry.progress * 100) \div ub.pages.v)
                 /\ ~entry.missing
            ELSE /\ entry.pct = None
                 /\ entry.missing = (ub.status_id = PyInt(2))

\* C9: a pct that is there lies in 0..100.
C9_PctInRange ==
    (idx > 0 /\ entry.pct # None) => entry.pct.v \in 0..100

\* C10: a run that failed left index.html, build.json and the static
\* directory as it found them.
C10_NoPartialOutput ==
    pc = "failed" =>
        /\ index_html = before.index_html
        /\ build_json = before.build_json
        /\ static_dst = before.static_dst

====
